---- MODULE Spec2Model ----
(***************************************************************************)
(* A model of zipCheck.cpp: the PKWare local-file-header checker           *)
(* (main, isValidZipFile, readLocalFileHeader) and its CRC-32 routines     *)
(* (generateCrc32Table, computeCrc32).                                     *)
(*                                                                         *)
(* Number representation.  TLC integers are 32-bit signed, so the          *)
(* program's uint32_t values are kept as two 16-bit limbs <<lo, hi>>       *)
(* (value = lo + 65536*hi) and its 64-bit stream offsets as four 16-bit    *)
(* limbs <<l0, l1, l2, l3>>.  All arithmetic on them keeps the width the   *)
(* C++ types have.  Integers are decoded from the file's bytes the way a   *)
(* little-endian host lays them out in memory.                             *)
(*                                                                         *)
(* The byte source is a regular file: a finite sequence of bytes with      *)
(* random access, opened through std::ifstream.                            *)
(***************************************************************************)
EXTENDS Integers, Sequences, FiniteSets, TLC

\* ---------------------------------------------------------------- bounds
\* largest number of bytes that follow the 30-byte fixed header
MaxTrail == 3
\* number of times the program is run (a later run sees the file with its
\* compressionMethod bytes edited)
MaxRuns == 2
\* longest buffer over {0x00, 0xFF} handed to computeCrc32, besides the
\* substrings of "123456789"
MaxCrcLen == 2

\* ------------------------------------------------------------ error codes
OK == 0
ERR_ARGUMENTS == 1
ERR_FILE_OPEN == 2
ERR_MAGIC_NUMBER == 3
ERR_HEADER_SIGNATURE == 4
ERR_HEADER_READ == 5
ERR_HEADER_SIGNATURE_READ == 6
ERR_HEADER_VERSION_NEEDED_READ == 7
ERR_HEADER_FLAGS_READ == 8
ERR_HEADER_COMPRESSION_METHOD_READ == 9
ERR_HEADER_LAST_MOD_TIME_READ == 10
ERR_HEADER_MOD_DATE_READ == 11
ERR_HEADER_CRC32_READ == 12
ERR_HEADER_COMPRESSED_SIZE_READ == 13
ERR_HEADER_UNCOMPRESSED_SIZE_READ == 14
ERR_HEADER_FILENAME_LENGTH_READ == 15
ERR_HEADER_EXTRA_FIELD_LENGTH_READ == 16
ERR_READ_FAIL == 17

\* no ErrorCode produced yet
NoCode == 0 - 1

\* const auto PK_SIGNATURE = 0x04034b50, as limbs <<0x4b50, 0x0403>>
PK_SIGNATURE == <<19280, 1027>>

errorCodeToString(code) ==
    CASE code = OK -> "OK"
      [] code = ERR_ARGUMENTS -> "ERR_ARGUMENTS"
      [] code = ERR_FILE_OPEN -> "ERR_FILE_OPEN"
      [] code = ERR_MAGIC_NUMBER -> "ERR_MAGIC_NUMBER"
      [] code = ERR_HEADER_SIGNATURE -> "ERR_HEADER_SIGNATURE"
      [] code = ERR_HEADER_READ -> "ERR_HEADER_READ"
      [] code = ERR_HEADER_SIGNATURE_READ -> "ERR_HEADER_SIGNATURE_READ"
      [] code = ERR_HEADER_VERSION_NEEDED_READ -> "ERR_HEADER_VERSION_NEEDED_READ"
      [] code = ERR_HEADER_FLAGS_READ -> "ERR_HEADER_FLAGS_READ"
      [] code = ERR_HEADER_COMPRESSION_METHOD_READ -> "ERR_HEADER_COMPRESSION_METHOD_READ"
      [] code = ERR_HEADER_LAST_MOD_TIME_READ -> "ERR_HEADER_LAST_MOD_TIME_READ"
      [] code = ERR_HEADER_MOD_DATE_READ -> "ERR_HEADER_MOD_DATE_READ"
      [] code = ERR_HEADER_CRC32_READ -> "ERR_HEADER_CRC32_READ"
      [] code = ERR_HEADER_COMPRESSED_SIZE_READ -> "ERR_HEADER_COMPRESSED_SIZE_READ"
      [] code = ERR_HEADER_UNCOMPRESSED_SIZE_READ -> "ERR_HEADER_UNCOMPRESSED_SIZE_READ"
      [] code = ERR_HEADER_FILENAME_LENGTH_READ -> "ERR_HEADER_FILENAME_LENGTH_READ"
      [] code = ERR_HEADER_EXTRA_FIELD_LENGTH_READ -> "ERR_HEADER_EXTRA_FIELD_LENGTH_READ"
      [] code = ERR_READ_FAIL -> "ERR_READ_FAIL"
      [] OTHER -> "UNKNOWN_ERROR"

\* mutant: the PPMd case is written as case 99 instead of case 98
compressionMethodToStringCase99(method) ==
    CASE method = 0 -> "no compression"
      [] method = 1 -> "shrunk"
      [] method = 2 -> "reduced with compression factor 1"
      [] method = 3 -> "reduced with compression factor 2"
      [] method = 4 -> "reduced with compression factor 3"
      [] method = 5 -> "reduced with compression factor 4"
      [] method = 6 -> "imploded"
      [] method = 7 -> "reserved"
      [] method = 8 -> "deflated"
      [] method = 9 -> "enhanced deflated"
      [] method = 10 -> "PKWare DCL imploded"
      [] method = 11 -> "reserved"
      [] method = 12 -> "compressed using BZIP2"
      [] method = 13 -> "reserved"
      [] method = 14 -> "LZMA"
      [] method \in {15, 16, 17} -> "reserved"
      [] method = 18 -> "compressed using IBM TERSE"
      [] method = 19 -> "IBM LZ77 z"
      [] method = 99 -> "PPMd version I, Rev 1"
      [] OTHER -> "unknown"

compressionMethodToString(method) ==
    CASE method = 0 -> "no compression"
      [] method = 1 -> "shrunk"
      [] method = 2 -> "reduced with compression factor 1"
      [] method = 3 -> "reduced with compression factor 2"
      [] method = 4 -> "reduced with compression factor 3"
      [] method = 5 -> "reduced with compression factor 4"
      [] method = 6 -> "imploded"
      [] method = 7 -> "reserved"
      [] method = 8 -> "deflated"
      [] method = 9 -> "enhanced deflated"
      [] method = 10 -> "PKWare DCL imploded"
      [] method = 11 -> "reserved"
      [] method = 12 -> "compressed using BZIP2"
      [] method = 13 -> "reserved"
      [] method = 14 -> "LZMA"
      [] method \in {15, 16, 17} -> "reserved"
      [] method = 18 -> "compressed using IBM TERSE"
      [] method = 19 -> "IBM LZ77 z"
      [] method = 98 -> "PPMd version I, Rev 1"
      [] OTHER -> "unknown"

\* ------------------------------------------------- fixed-width arithmetic
\* n-bit exclusive or of two naturals below 2^n
RECURSIVE BitXor(_, _, _)
BitXor(a, b, n) ==
    IF n = 0 THEN 0
    ELSE ((a + b) % 2) + 2 * BitXor(a \div 2, b \div 2, n - 1)

\* uint32_t operators on limbs <<lo, hi>>
Xor32(x, y) == <<BitXor(x[1], y[1], 16), BitXor(x[2], y[2], 16)>>
Shr1(x) == <<(x[1] \div 2) + (x[2] % 2) * 32768, x[2] \div 2>>
Shr8(x) == <<(x[1] \div 256) + (x[2] % 256) * 256, x[2] \div 256>>
Not32(x) == <<65535 - x[1], 65535 - x[2]>>
LowByte(x) == x[1] % 256

\* conversion of a non-negative int to uint32_t
ToU32(n) == <<n % 65536, n \div 65536>>

\* unsigned int addition: the result is reduced modulo 2^32
AddU32(x, y) ==
    LET lo == x[1] + y[1]
        hi == x[2] + y[2] + (lo \div 65536)
    IN  <<lo % 65536, hi % 65536>>

\* std::streamoff (64-bit) from a small natural and from a uint32_t
Off(n) == <<n, 0, 0, 0>>
U32ToOff(x) == <<x[1], x[2], 0, 0>>

\* 64-bit addition of two non-negative offsets
AddOff(p, q) ==
    LET s1 == p[1] + q[1]
        s2 == p[2] + q[2] + (s1 \div 65536)
        s3 == p[3] + q[3] + (s2 \div 65536)
        s4 == p[4] + q[4] + (s3 \div 65536)
    IN  <<s1 % 65536, s2 % 65536, s3 % 65536, s4 % 65536>>

\* an offset is negative as a signed 64-bit value when its top bit is set
OffNegative(p) == p[4] >= 32768

\* p <= Off(n) for a small natural n
OffAtMost(p, n) == p[4] = 0 /\ p[3] = 0 /\ p[2] = 0 /\ p[1] <= n

\* little-endian decoding of the bytes a read stored into an integer object
LE16(b) == b[1] + 256 * b[2]
LE32(b) == <<b[1] + 256 * b[2], b[3] + 256 * b[4]>>

\* ------------------------------------------------------------------ CRC-32
\* uint32_t polynomial = 0xedb88320, as limbs <<0x8320, 0xedb8>>
polynomial == <<33568, 60856>>

\* the inner loop of generateCrc32Table: j shift/XOR steps applied to crc
RECURSIVE Crc32Shift(_, _)
Crc32Shift(crc, j) ==
    IF j = 0 THEN crc
    ELSE Crc32Shift(IF crc[1] % 2 = 1 THEN Xor32(Shr1(crc), polynomial)
                    ELSE Shr1(crc),
                    j - 1)

\* mutant: the inner loop runs 7 times instead of 8
Crc32EntrySevenSteps(i) == Crc32Shift(ToU32(i), 7)

\* the value generateCrc32Table stores in crc32Table[i]
Crc32Entry(i) == Crc32Shift(ToU32(i), 8)

\* the table after generateCrc32Table has run, indexed 0..255
GeneratedCrc32Table == [i \in 0..255 |-> Crc32Entry(i)]

\* static uint32_t crc32Table[256]: zero-initialised static storage
ZeroCrc32Table == [i \in 0..255 |-> <<0, 0>>]

\* one iteration of computeCrc32's loop over the byte d
Crc32Update(table, crcValue, d) ==
    LET tableIndex == BitXor(LowByte(crcValue), d, 8)
    IN  Xor32(table[tableIndex], Shr8(crcValue))

\* the bytes of the ASCII text "123456789"
CheckString == <<49, 50, 51, 52, 53, 54, 55, 56, 57>>

RECURSIVE SeqsOver(_, _)
SeqsOver(S, n) ==
    IF n = 0 THEN {<<>>}
    ELSE LET shorter == SeqsOver(S, n - 1)
         IN  shorter \cup {Append(s, x) : s \in shorter, x \in S}

\* the buffers computeCrc32 is applied to
CrcInputs ==
    {SubSeq(CheckString, a, b) : a \in 1..10, b \in 0..9}
        \cup SeqsOver({0, 255}, MaxCrcLen)

\* ------------------------------------------------------------ the files
\* the four bytes the quick check expects: 0x50 0x4B 0x03 0x04
Magic == <<80, 75, 3, 4>>

\* first four bytes of the files: the magic, and the magic with one byte off
MagicChoices ==
    {Magic, <<77, 75, 3, 4>>, <<80, 76, 3, 4>>, <<80, 75, 5, 4>>, <<80, 75, 3, 6>>}

\* compressionMethod values written into the files
CmChoices == {0, 8, 99, 264}
\* compressedSize values, as the four bytes in the file
CsChoices == {<<0, 0, 0, 0>>, <<2, 0, 0, 0>>, <<255, 255, 255, 255>>}
\* fileNameLength and extraFieldLength values
FnlChoices == {0, 1, 5}
EflChoices == {0, 1}
\* the byte every other header field is filled with
FillChoices == {0, 255}

Bytes16(n) == <<n % 256, n \div 256>>
Fill(b, n) == [i \in 1..n |-> b]

\* a 30-byte local file header in the layout of ZipLocalFileHeader
HeaderBytes(magic, fill, cm, cs, fnl, efl) ==
    magic \o Fill(fill, 2) \o Fill(fill, 2) \o Bytes16(cm) \o Fill(fill, 2)
          \o Fill(fill, 2) \o Fill(fill, 4) \o cs \o Fill(fill, 4)
          \o Bytes16(fnl) \o Bytes16(efl)

\* the contents a file on disk may have: a header followed by up to MaxTrail
\* bytes, cut off at any length
Inputs ==
    UNION { LET whole == HeaderBytes(m, fl, cm, cs, fnl, efl) \o Fill(170, MaxTrail)
            IN  {SubSeq(whole, 1, len) : len \in 0..Len(whole)}
            : m \in MagicChoices, fl \in FillChoices, cm \in CmChoices,
              cs \in CsChoices, fnl \in FnlChoices, efl \in EflChoices }

\* the file f with its compressionMethod bytes (offsets 8 and 9) replaced by
\* those of cm, as far as the file reaches
EditCompressionMethod(f, cm) ==
    [i \in 1..Len(f) |-> IF i = 9 THEN cm % 256
                         ELSE IF i = 10 THEN cm \div 256
                         ELSE f[i]]

\* ----------------------------------------------------------- std::ifstream
\* mutant: a read that ends exactly at end-of-file is taken to have failed
\* (end-of-file confused with failure)
IfstreamReadStrict(f, p, bad, n) ==
    IF bad \/ ~OffAtMost(p, Len(f))
    THEN [bytes |-> <<>>, pos |-> p, fail |-> TRUE]
    ELSE LET last == IF p[1] + n <= Len(f) THEN p[1] + n ELSE Len(f)
             got  == SubSeq(f, p[1] + 1, last)
         IN  [bytes |-> got, pos |-> Off(last),
              fail |-> Len(got) < n \/ last = Len(f)]

\* file.read(dst, n) on contents f at offset p: a stream that has already
\* failed reads nothing; otherwise the bytes available, at most n, are stored
\* and failbit is set when fewer than n were there
IfstreamRead(f, p, bad, n) ==
    IF bad \/ ~OffAtMost(p, Len(f))
    THEN [bytes |-> <<>>, pos |-> p, fail |-> TRUE]
    ELSE LET last == IF p[1] + n <= Len(f) THEN p[1] + n ELSE Len(f)
             got  == SubSeq(f, p[1] + 1, last)
         IN  [bytes |-> got, pos |-> Off(last), fail |-> Len(got) < n]

\* mutant: every seek is relative to the current position (std::ios::cur
\* where std::ios::beg is meant)
IfstreamSeekFromCurrent(base, p, bad, off) ==
    LET target == AddOff(p, off)
    IN  IF bad THEN [pos |-> p, fail |-> TRUE]
        ELSE IF OffNegative(target) THEN [pos |-> p, fail |-> TRUE]
        ELSE [pos |-> target, fail |-> FALSE]

\* file.seekg(off, dir) from the base offset (0 for ios::beg, the current
\* position for ios::cur) on a regular file: a failed stream is left alone;
\* otherwise the file position becomes base + off, which the file system
\* accepts at and beyond end-of-file alike and rejects only when negative
IfstreamSeek(base, p, bad, off) ==
    LET target == AddOff(base, off)
    IN  IF bad THEN [pos |-> p, fail |-> TRUE]
        ELSE IF OffNegative(target) THEN [pos |-> p, fail |-> TRUE]
        ELSE [pos |-> target, fail |-> FALSE]

\* ------------------------------------------------------ the header record
\* the eleven reads of readLocalFileHeader, in order: the member read, its
\* width in bytes, and the ErrorCode returned when the read fails
HeaderFields == <<
    [name |-> "signature",         width |-> 4, err |-> ERR_HEADER_SIGNATURE_READ],
    [name |-> "versionNeeded",     width |-> 2, err |-> ERR_HEADER_VERSION_NEEDED_READ],
    [name |-> "flags",             width |-> 2, err |-> ERR_HEADER_FLAGS_READ],
    [name |-> "compressionMethod", width |-> 2, err |-> ERR_HEADER_COMPRESSION_METHOD_READ],
    [name |-> "lastModTime",       width |-> 2, err |-> ERR_HEADER_LAST_MOD_TIME_READ],
    [name |-> "lastModDate",       width |-> 2, err |-> ERR_HEADER_MOD_DATE_READ],
    [name |-> "crc32",             width |-> 4, err |-> ERR_HEADER_CRC32_READ],
    [name |-> "compressedSize",    width |-> 4, err |-> ERR_HEADER_COMPRESSED_SIZE_READ],
    [name |-> "uncompressedSize",  width |-> 4, err |-> ERR_HEADER_UNCOMPRESSED_SIZE_READ],
    [name |-> "fileNameLength",    width |-> 2, err |-> ERR_HEADER_FILENAME_LENGTH_READ],
    [name |-> "extraFieldLength",  width |-> 2, err |-> ERR_HEADER_EXTRA_FIELD_LENGTH_READ] >>

\* ZipLocalFileHeader header; declared without an initialiser.  Each member
\* holds the bytes a read has stored in it; <<>> is a member not written yet
\* (the program reads no member before the read that fills it)
UninitialisedHeader == [n \in {HeaderFields[i].name : i \in 1..11} |-> <<>>]

\* mutant: the result of the four-byte read is not checked
MagicReadErrorUnchecked(fail) == OK

\* if (!file.read(buffer.data(), 4)) return { ERR_READ_FAIL, ... };  OK
\* stands for "no return taken"
MagicReadError(fail) == IF fail THEN ERR_READ_FAIL ELSE OK

\* mutant: the quick check looks at the first two bytes ("PK") only
MagicMatchesPK(buf) == buf[1] = 80 /\ buf[2] = 75

\* mutant: the four comparisons are joined by || instead of &&
MagicMatchesAnyByte(buf) == buf[1] = 80 \/ buf[2] = 75 \/ buf[3] = 3 \/ buf[4] = 4

\* buffer[0] == 0x50 && buffer[1] == 0x4B && buffer[2] == 0x03 && buffer[3] == 0x04
MagicMatches(buf) == buf[1] = 80 /\ buf[2] = 75 /\ buf[3] = 3 /\ buf[4] = 4

\* mutant: the result of the versionNeeded read is not checked
FieldReadErrorVersionUnchecked(i, fail, h) ==
    IF fail /\ i # 2 THEN HeaderFields[i].err ELSE OK

\* mutant: an unknown compression method is rejected as unreadable
FieldReadErrorRejectUnknown(i, fail, h) ==
    IF fail THEN HeaderFields[i].err
    ELSE IF i = 4 /\ compressionMethodToString(LE16(h.compressionMethod)) = "unknown"
         THEN ERR_HEADER_COMPRESSION_METHOD_READ
    ELSE OK

\* mutant: the error codes of the lastModDate and crc32 reads are swapped
FieldReadErrorSwapped(i, fail, h) ==
    IF ~fail THEN OK
    ELSE IF i = 6 THEN ERR_HEADER_CRC32_READ
    ELSE IF i = 7 THEN ERR_HEADER_MOD_DATE_READ
    ELSE HeaderFields[i].err

\* if (!file.read(&header.<member i>, width)) return <err i>;  OK stands for
\* "no return taken"; h is the header after the read
FieldReadError(i, fail, h) == IF fail THEN HeaderFields[i].err ELSE OK

\* mutant: the signature is compared as if read big-endian
SignatureErrorBigEndian(h) ==
    IF <<h.signature[4] + 256 * h.signature[3],
         h.signature[2] + 256 * h.signature[1]>> # PK_SIGNATURE
    THEN ERR_HEADER_SIGNATURE ELSE OK

\* if (header.signature != PK_SIGNATURE) return ERR_HEADER_SIGNATURE; return OK;
SignatureError(h) ==
    IF LE32(h.signature) # PK_SIGNATURE THEN ERR_HEADER_SIGNATURE ELSE OK

\* header.fileNameLength + header.extraFieldLength + header.compressedSize:
\* the two uint16_t members are promoted to int and added, the int sum is
\* converted to unsigned int and added to the uint32_t member modulo 2^32,
\* and the unsigned result is converted to the 64-bit offset seekg takes
SeekDistance(h) ==
    U32ToOff(AddU32(ToU32(LE16(h.fileNameLength) + LE16(h.extraFieldLength)),
                    LE32(h.compressedSize)))

\* ------------------------------------------------------------------ state
VARIABLES
    argc,        \* main's argc: 1 (no path given) or 2
    file,        \* contents of the file argv[1] names
    openable,    \* whether that file can be opened for reading
    pc,          \* where the process is
    crc32Table,  \* static uint32_t crc32Table[256]
    tableRuns,   \* calls of generateCrc32Table made by this process
    isOpen,      \* std::ifstream file holds an open file
    pos,         \* its read position, a 64-bit offset
    failed,      \* its failbit
    buffer,      \* std::vector<unsigned char> buffer(4)
    header,      \* ZipLocalFileHeader header
    fieldIndex,  \* the read readLocalFileHeader is at, 1..11
    errorCode,   \* ErrorCode errorCode = readLocalFileHeader(file, header)
    advance,     \* the offset handed to seekg(..., std::ios::cur)
    result,      \* first member of the pair isValidZipFile returned
    reason,      \* second member of that pair
    out,         \* lines written to std::cout
    err,         \* lines written to std::cerr
    exitCode,    \* value main returned
    trace,       \* steps of isValidZipFile done in this run, with their success
    returns,     \* return statements isValidZipFile executed in this run
    run,         \* number of this run of the program
    prev,        \* file, result and reason of the previous run
    crcPc,       \* where a call of computeCrc32 is
    data,        \* its argument data[0 .. length-1]
    crcI,        \* its loop variable i
    crcValue,    \* its local crcValue
    crcReturn,   \* the value it returned
    lblPc,       \* where a call of compressionMethodToString is
    method,      \* its argument, a uint16_t
    label        \* the string it returned

procVars == <<pc, crc32Table, tableRuns, isOpen, pos, failed, buffer, header, fieldIndex,
              errorCode, advance, result, reason, out, err, exitCode, trace,
              returns>>
envVars == <<argc, file, openable, run, prev>>
crcVars == <<crcPc, data, crcI, crcValue, crcReturn>>
lblVars == <<lblPc, method, label>>
vars == <<envVars, procVars, crcVars, lblVars>>

\* a line of output: text, and the number printed after it (NoCode: none)
Line(text, code) == [text |-> text, code |-> code]

\* a process that has just started
ProcStart ==
    /\ pc = "main"
    /\ crc32Table = ZeroCrc32Table
    /\ tableRuns = 0
    /\ isOpen = FALSE
    /\ pos = Off(0)
    /\ failed = FALSE
    /\ buffer = <<0, 0, 0, 0>>
    /\ header = UninitialisedHeader
    /\ fieldIndex = 0
    /\ errorCode = NoCode
    /\ advance = Off(0)
    /\ result = NoCode
    /\ reason = ""
    /\ out = <<>>
    /\ err = <<>>
    /\ exitCode = NoCode
    /\ trace = <<>>
    /\ returns = 0

CrcIdle ==
    /\ crcPc = "idle"
    /\ data = <<>>
    /\ crcI = 0
    /\ crcValue = <<0, 0>>
    /\ crcReturn = <<0, 0>>

LabelIdle ==
    /\ lblPc = "idle"
    /\ method = 0
    /\ label = ""

Init ==
    /\ argc \in {1, 2}
    /\ file \in Inputs
    /\ openable \in BOOLEAN
    /\ run = 1
    /\ prev = [file |-> <<>>, result |-> NoCode, reason |-> ""]
    /\ ProcStart
    /\ CrcIdle
    /\ LabelIdle

\* a step of isValidZipFile is recorded with its success
Did(step, ok) == trace' = Append(trace, [step |-> step, ok |-> ok])

\* mutant: the file is closed on the successful return only
ReturnLeavingOpen(code, text) ==
    /\ result' = code
    /\ reason' = text
    /\ returns' = returns + 1
    /\ isOpen' = (IF code = OK THEN FALSE ELSE isOpen)
    /\ pc' = "returned"

\* return { code, text }; leaving isValidZipFile destroys the std::ifstream,
\* which closes the file
Return(code, text) ==
    /\ result' = code
    /\ reason' = text
    /\ returns' = returns + 1
    /\ isOpen' = FALSE
    /\ pc' = "returned"

\* ------------------------------------------------------------------- main
\* if (argc < 2) { std::cerr << "usage: ..."; return ERR_ARGUMENTS; }
MainCheckArguments ==
    /\ pc = "main"
    /\ IF argc < 2
       THEN /\ err' = Append(err, Line("usage", NoCode))
            /\ exitCode' = ERR_ARGUMENTS
            /\ pc' = "exit"
       ELSE /\ pc' = "generate"
            /\ UNCHANGED <<err, exitCode>>
    /\ UNCHANGED <<envVars, lblVars, crcVars, crc32Table, tableRuns, isOpen, pos, failed, buffer,
                   header, fieldIndex, errorCode, advance, result, reason, out,
                   trace, returns>>

\* mutant: the table is never built (the call is missing)
generateCrc32TableMissing == UNCHANGED <<crc32Table, tableRuns>>

\* generateCrc32Table(): every entry of crc32Table is written
generateCrc32Table ==
    /\ crc32Table' = GeneratedCrc32Table
    /\ tableRuns' = tableRuns + 1

MainGenerateCrc32Table ==
    /\ pc = "generate"
    /\ generateCrc32Table
    /\ pc' = "notice"
    /\ UNCHANGED <<envVars, lblVars, crcVars, isOpen, pos, failed, buffer, header,
                   fieldIndex, errorCode, advance, result, reason, out, err,
                   exitCode, trace, returns>>

\* std::cout << "procesing " << argv[1] << std::endl;
MainPrintNotice ==
    /\ pc = "notice"
    /\ out' = Append(out, Line("procesing", NoCode))
    /\ pc' = "open"
    /\ UNCHANGED <<envVars, lblVars, crcVars, crc32Table, tableRuns, isOpen, pos, failed, buffer,
                   header, fieldIndex, errorCode, advance, result, reason, err,
                   exitCode, trace, returns>>

\* --------------------------------------------------------- isValidZipFile
\* std::ifstream file(filePath, std::ios::binary); if (!file.is_open()) ...
OpenFile ==
    /\ pc = "open"
    /\ Did("open", openable)
    /\ IF ~openable
       THEN /\ Return(ERR_FILE_OPEN, "could not open file")
            /\ UNCHANGED <<pos, failed>>
       ELSE /\ isOpen' = TRUE
            /\ pos' = Off(0)
            /\ failed' = FALSE
            /\ pc' = "magicRead"
            /\ UNCHANGED <<result, reason, returns>>
    /\ UNCHANGED <<envVars, lblVars, crcVars, crc32Table, tableRuns, buffer, header, fieldIndex,
                   errorCode, advance, out, err, exitCode>>

\* if (!file.read(buffer.data(), 4)) return { ERR_READ_FAIL, ... };
ReadMagic ==
    /\ pc = "magicRead"
    /\ LET r == IfstreamRead(file, pos, failed, 4)
       IN  /\ buffer' = r.bytes \o SubSeq(buffer, Len(r.bytes) + 1, 4)
           /\ pos' = r.pos
           /\ failed' = r.fail
           /\ Did("magicRead", ~r.fail)
           /\ IF MagicReadError(r.fail) # OK
              THEN Return(MagicReadError(r.fail), "failed to read from file")
              ELSE /\ pc' = "magicCompare"
                   /\ UNCHANGED <<result, reason, returns, isOpen>>
    /\ UNCHANGED <<envVars, lblVars, crcVars, crc32Table, tableRuns, header, fieldIndex, errorCode,
                   advance, out, err, exitCode>>

\* if (!(buffer[0] == 0x50 && ...)) return { ERR_MAGIC_NUMBER, ... };
CompareMagic ==
    /\ pc = "magicCompare"
    /\ Did("magicCompare", MagicMatches(buffer))
    /\ IF ~MagicMatches(buffer)
       THEN Return(ERR_MAGIC_NUMBER, "incorrect magic number")
       ELSE /\ pc' = "rewind"
            /\ UNCHANGED <<result, reason, returns, isOpen>>
    /\ UNCHANGED <<envVars, lblVars, crcVars, crc32Table, tableRuns, pos, failed, buffer, header,
                   fieldIndex, errorCode, advance, out, err, exitCode>>

\* file.seekg(0, std::ios::beg); the stream's state is not looked at.  Then
\* ZipLocalFileHeader header; and the call of readLocalFileHeader
Rewind ==
    /\ pc = "rewind"
    /\ LET r == IfstreamSeek(Off(0), pos, failed, Off(0))
       IN  /\ pos' = r.pos
           /\ failed' = r.fail
           /\ Did("rewind", ~r.fail)
    /\ header' = UninitialisedHeader
    /\ fieldIndex' = 1
    /\ pc' = "field"
    /\ UNCHANGED <<envVars, lblVars, crcVars, crc32Table, tableRuns, isOpen, buffer, errorCode,
                   advance, result, reason, out, err, exitCode, returns>>

\* mutant: the label is printed after the last read instead of the fourth
PrintsLabelAfterLastRead(i) == i = 11

\* std::cout << compressionMethodToString(header.compressionMethod) follows
\* the fourth read, that of compressionMethod, once that read has succeeded
PrintsLabel(i) == i = 4

\* readLocalFileHeader: the read of member fieldIndex; after the
\* compressionMethod read its label is printed
ReadField ==
    /\ pc = "field"
    /\ LET f == HeaderFields[fieldIndex]
           r == IfstreamRead(file, pos, failed, f.width)
           h == [header EXCEPT ![f.name] = r.bytes]
           e == FieldReadError(fieldIndex, r.fail, h)
       IN  /\ header' = h
           /\ pos' = r.pos
           /\ failed' = r.fail
           /\ Did(f.name, ~r.fail)
           /\ IF e # OK
              THEN /\ errorCode' = e
                   /\ pc' = "headerReturned"
                   /\ UNCHANGED <<fieldIndex, out>>
              ELSE /\ out' = IF PrintsLabel(fieldIndex)
                             THEN Append(out,
                                    Line(compressionMethodToString(
                                             LE16(h.compressionMethod)), NoCode))
                             ELSE out
                   /\ fieldIndex' = IF fieldIndex = 11 THEN 11 ELSE fieldIndex + 1
                   /\ pc' = IF fieldIndex = 11 THEN "signatureCompare" ELSE "field"
                   /\ UNCHANGED errorCode
    /\ UNCHANGED <<envVars, lblVars, crcVars, crc32Table, tableRuns, isOpen, buffer, advance,
                   result, reason, err, exitCode, returns>>

\* readLocalFileHeader: the signature check and the return that follows it
CompareSignature ==
    /\ pc = "signatureCompare"
    /\ errorCode' = SignatureError(header)
    /\ Did("signatureCompare", SignatureError(header) = OK)
    /\ pc' = "headerReturned"
    /\ UNCHANGED <<envVars, lblVars, crcVars, crc32Table, tableRuns, isOpen, pos, failed, buffer,
                   header, fieldIndex, advance, result, reason, out, err,
                   exitCode, returns>>

\* if (errorCode != OK) return { errorCode, errorCodeToString(errorCode) };
CheckHeaderResult ==
    /\ pc = "headerReturned"
    /\ IF errorCode # OK
       THEN Return(errorCode, errorCodeToString(errorCode))
       ELSE /\ pc' = "forwardSeek"
            /\ UNCHANGED <<result, reason, returns, isOpen>>
    /\ UNCHANGED <<envVars, lblVars, crcVars, crc32Table, tableRuns, pos, failed, buffer, header,
                   fieldIndex, errorCode, advance, out, err, exitCode, trace>>

\* if (!file.seekg(<sum>, std::ios::cur)) return { ERR_READ_FAIL, ... };
\* return { OK, "the file is a valid ZIP file" };
ForwardSeek ==
    /\ pc = "forwardSeek"
    /\ LET off == SeekDistance(header)
           r   == IfstreamSeek(pos, pos, failed, off)
       IN  /\ advance' = off
           /\ pos' = r.pos
           /\ failed' = r.fail
           /\ Did("forwardSeek", ~r.fail)
           /\ IF r.fail
              THEN Return(ERR_READ_FAIL, "failed to seek in file")
              ELSE Return(OK, "the file is a valid ZIP file")
    /\ UNCHANGED <<envVars, lblVars, crcVars, crc32Table, tableRuns, buffer, header, fieldIndex,
                   errorCode, out, err, exitCode>>

\* mutant: main reports failure as 1 whatever the outcome was
MainReturnValueOneOnFailure(code) == IF code = OK THEN 0 ELSE 1

\* return result; the ErrorCode becomes the int main returns, which is the
\* process exit status
MainReturnValue(code) == code

\* std::cout << reason << " " << result << std::endl; return result;
MainReport ==
    /\ pc = "returned"
    /\ out' = Append(out, Line(reason, result))
    /\ exitCode' = MainReturnValue(result)
    /\ pc' = "exit"
    /\ UNCHANGED <<envVars, lblVars, crcVars, crc32Table, tableRuns, isOpen, pos, failed, buffer,
                   header, fieldIndex, errorCode, advance, result, reason, err,
                   trace, returns>>

\* ------------------------------------------------------------ environment
\* after the process has exited, the compressionMethod bytes of the file are
\* overwritten and the program is started again on it
EditAndRerun ==
    /\ pc = "exit"
    /\ run < MaxRuns
    /\ \E cm \in CmChoices :
          /\ EditCompressionMethod(file, cm) # file
          /\ file' = EditCompressionMethod(file, cm)
    /\ prev' = [file |-> file, result |-> result, reason |-> reason]
    /\ run' = run + 1
    /\ pc' = "main"
    /\ crc32Table' = ZeroCrc32Table
    /\ tableRuns' = 0
    /\ isOpen' = FALSE
    /\ pos' = Off(0)
    /\ failed' = FALSE
    /\ buffer' = <<0, 0, 0, 0>>
    /\ header' = UninitialisedHeader
    /\ fieldIndex' = 0
    /\ errorCode' = NoCode
    /\ advance' = Off(0)
    /\ result' = NoCode
    /\ reason' = ""
    /\ out' = <<>>
    /\ err' = <<>>
    /\ exitCode' = NoCode
    /\ trace' = <<>>
    /\ returns' = 0
    /\ UNCHANGED <<argc, openable, lblVars, crcVars>>

Next ==
    \/ MainCheckArguments
    \/ MainGenerateCrc32Table
    \/ MainPrintNotice
    \/ OpenFile
    \/ ReadMagic
    \/ CompareMagic
    \/ Rewind
    \/ ReadField
    \/ CompareSignature
    \/ CheckHeaderResult
    \/ ForwardSeek
    \/ MainReport
    \/ EditAndRerun

Spec == Init /\ [][Next]_vars

\* ---------------------------------------- the CRC-32 routines on their own
\* main never calls computeCrc32, so the two routines are also run as a
\* library would use them: generateCrc32Table between calls, and computeCrc32
\* on a buffer from CrcInputs, one loop iteration per step
InitCrc ==
    /\ argc = 1
    /\ file = <<>>
    /\ openable = FALSE
    /\ run = 1
    /\ prev = [file |-> <<>>, result |-> NoCode, reason |-> ""]
    /\ ProcStart
    /\ CrcIdle
    /\ LabelIdle

CallGenerateCrc32Table ==
    /\ crcPc = "idle"
    /\ crc32Table = ZeroCrc32Table
    /\ generateCrc32Table
    /\ UNCHANGED <<envVars, lblVars, crcVars, pc, isOpen, pos, failed, buffer, header,
                   fieldIndex, errorCode, advance, result, reason, out, err,
                   exitCode, trace, returns>>

\* uint32_t crcValue = 0xffffffff; and entry to the loop with i = 0
ComputeCrc32Call ==
    /\ crcPc = "idle"
    /\ \E d \in CrcInputs : data' = d
    /\ crcI' = 0
    /\ crcValue' = <<65535, 65535>>
    /\ crcPc' = "loop"
    /\ UNCHANGED <<envVars, lblVars, procVars, crcReturn>>

\* one iteration of for (size_t i = 0; i < length; i++)
ComputeCrc32Loop ==
    /\ crcPc = "loop"
    /\ crcI < Len(data)
    /\ crcValue' = Crc32Update(crc32Table, crcValue, data[crcI + 1])
    /\ crcI' = crcI + 1
    /\ UNCHANGED <<envVars, lblVars, procVars, crcPc, data, crcReturn>>

\* return ~crcValue;
ComputeCrc32Return ==
    /\ crcPc = "loop"
    /\ crcI >= Len(data)
    /\ crcReturn' = Not32(crcValue)
    /\ crcPc' = "returned"
    /\ UNCHANGED <<envVars, lblVars, procVars, data, crcI, crcValue>>

\* the caller goes on after the call
ComputeCrc32Done ==
    /\ crcPc = "returned"
    /\ crcPc' = "idle"
    /\ UNCHANGED <<envVars, lblVars, procVars, data, crcI, crcValue, crcReturn>>

NextCrc ==
    \/ CallGenerateCrc32Table
    \/ ComputeCrc32Call
    \/ ComputeCrc32Loop
    \/ ComputeCrc32Return
    \/ ComputeCrc32Done

SpecCrc == InitCrc /\ [][NextCrc]_vars

\* ------------------------------------- compressionMethodToString on its own
\* the lookup applied to every value a uint16_t can hold
InitLabel ==
    /\ argc = 1
    /\ file = <<>>
    /\ openable = FALSE
    /\ run = 1
    /\ prev = [file |-> <<>>, result |-> NoCode, reason |-> ""]
    /\ ProcStart
    /\ CrcIdle
    /\ lblPc = "called"
    /\ method \in 0..65535
    /\ label = ""

\* return of compressionMethodToString(method)
CompressionMethodToStringReturn ==
    /\ lblPc = "called"
    /\ label' = compressionMethodToString(method)
    /\ lblPc' = "returned"
    /\ UNCHANGED <<envVars, procVars, crcVars, method>>

NextLabel == CompressionMethodToStringReturn

SpecLabel == InitLabel /\ [][NextLabel]_vars

\* =================================================================== claims
\* isValidZipFile has returned in this run
Returned == returns > 0

\* the file starts with the four magic bytes
FileHasMagic == Len(file) >= 4 /\ SubSeq(file, 1, 4) = Magic

\* for a file f of at least 30 bytes: fileNameLength + extraFieldLength +
\* compressedSize, as the sum of the numbers written at offsets 26, 28 and 18,
\* is greater than the number of bytes after the 30-byte header (that number
\* is below 65536, so any compressedSize of 65536 or more exceeds it)
TrailerExceeds(f) ==
    LET fnl  == f[27] + 256 * f[28]
        efl  == f[29] + 256 * f[30]
        csLo == f[19] + 256 * f[20]
        csHi == f[21] + 256 * f[22]
    IN  csHi > 0 \/ fnl + efl + csLo > Len(f) - 30

\* C1 (as claimed): when the magic matches, the 30-byte header is complete and
\* fileNameLength + extraFieldLength + compressedSize exceeds the bytes that
\* follow the header, isValidZipFile returns ERR_READ_FAIL with the message
\* "failed to seek in file".
C1_TrailerOverrunIsReadFailure ==
    (Returned /\ openable /\ FileHasMagic /\ Len(file) >= 30 /\ TrailerExceeds(file))
        => (result = ERR_READ_FAIL /\ reason = "failed to seek in file")

\* the error the claim C2 names for a file of len bytes, 4 <= len < 30: that of
\* the first field whose end offset exceeds len
TruncationError(len) ==
    CASE len < 6 -> ERR_HEADER_VERSION_NEEDED_READ
      [] len >= 6 /\ len < 8 -> ERR_HEADER_FLAGS_READ
      [] len >= 8 /\ len < 10 -> ERR_HEADER_COMPRESSION_METHOD_READ
      [] len >= 10 /\ len < 12 -> ERR_HEADER_LAST_MOD_TIME_READ
      [] len >= 12 /\ len < 14 -> ERR_HEADER_MOD_DATE_READ
      [] len >= 14 /\ len < 18 -> ERR_HEADER_CRC32_READ
      [] len >= 18 /\ len < 22 -> ERR_HEADER_COMPRESSED_SIZE_READ
      [] len >= 22 /\ len < 26 -> ERR_HEADER_UNCOMPRESSED_SIZE_READ
      [] len >= 26 /\ len < 28 -> ERR_HEADER_FILENAME_LENGTH_READ
      [] OTHER -> ERR_HEADER_EXTRA_FIELD_LENGTH_READ

\* C2: a file that starts with the magic and is shorter than 30 bytes yields
\* the read error of the first field whose end offset exceeds its length; the
\* outcome depends on the length alone and is none of OK, ERR_READ_FAIL,
\* ERR_MAGIC_NUMBER, ERR_HEADER_SIGNATURE.
C2_TruncatedHeaderError ==
    (Returned /\ openable /\ FileHasMagic /\ Len(file) < 30)
        => /\ result = TruncationError(Len(file))
           /\ result \notin {OK, ERR_READ_FAIL, ERR_MAGIC_NUMBER, ERR_HEADER_SIGNATURE}

C2_Witness ==
    /\ Returned /\ openable /\ FileHasMagic
    /\ Len(file) = 27
    /\ result = ERR_HEADER_FILENAME_LENGTH_READ

\* C3 (as claimed): the magic followed by exactly 10 more bytes (14 bytes in
\* all) yields ERR_HEADER_COMPRESSION_METHOD_READ.
C3_FourteenBytesCompressionMethod ==
    (Returned /\ openable /\ FileHasMagic /\ Len(file) = 14)
        => result = ERR_HEADER_COMPRESSION_METHOD_READ

\* C3 (amended): the magic followed by exactly 10 more bytes (14 bytes in all)
\* fails at the crc32 read: the outcome is ERR_HEADER_CRC32_READ, code 12.
C3_FourteenBytesCrc32 ==
    (Returned /\ openable /\ FileHasMagic /\ Len(file) = 14)
        => /\ result = ERR_HEADER_CRC32_READ
           /\ result = 12
           /\ trace[Len(trace)] = [step |-> "crc32", ok |-> FALSE]

C3_Witness ==
    /\ Returned /\ openable /\ FileHasMagic
    /\ Len(file) = 14
    /\ result = ERR_HEADER_CRC32_READ

\* C4: a file that cannot be opened yields ERR_FILE_OPEN; a file of 0 to 3
\* bytes that can be opened yields ERR_READ_FAIL whatever its bytes are.
C4_ShortInputIsReadFailure ==
    Returned =>
        IF ~openable THEN result = ERR_FILE_OPEN
        ELSE Len(file) < 4 => result = ERR_READ_FAIL

C4_Witness ==
    /\ Returned /\ openable
    /\ Len(file) = 3
    /\ file # SubSeq(Magic, 1, 3)
    /\ result = ERR_READ_FAIL

\* C5: a file of at least 4 bytes whose first 4 bytes are not the magic yields
\* ERR_MAGIC_NUMBER, whatever its length and its later bytes.
C5_WrongMagicIsMismatch ==
    (Returned /\ openable /\ Len(file) >= 4 /\ SubSeq(file, 1, 4) # Magic)
        => result = ERR_MAGIC_NUMBER

C5_Witness ==
    /\ Returned /\ openable
    /\ Len(file) = 30 + MaxTrail
    /\ SubSeq(file, 1, 4) = <<80, 75, 5, 4>>
    /\ result = ERR_MAGIC_NUMBER

\* C6: a file that starts with the magic, holds the whole 30-byte header and
\* has at least fileNameLength + extraFieldLength + compressedSize bytes after
\* it yields OK with the message "the file is a valid ZIP file".
C6_SuccessPath ==
    (Returned /\ openable /\ FileHasMagic /\ Len(file) >= 30 /\ ~TrailerExceeds(file))
        => (result = OK /\ reason = "the file is a valid ZIP file")

\* the minimal header: magic, every other field zero, nothing after it
C6_Witness ==
    /\ Returned
    /\ file = HeaderBytes(Magic, 0, 0, <<0, 0, 0, 0>>, 0, 0)
    /\ result = OK
    /\ reason = "the file is a valid ZIP file"

\* the forward seek of isValidZipFile has been made in this run
SeekMade == trace # <<>> /\ trace[Len(trace)].step = "forwardSeek"

\* C7 (as claimed): the distance of the forward seek is the sum
\* fileNameLength + extraFieldLength + compressedSize as a number, not reduced
\* modulo 2^32.
C7_SeekDistanceIsSum ==
    SeekMade =>
        advance = AddOff(Off(LE16(header.fileNameLength)),
                         AddOff(Off(LE16(header.extraFieldLength)),
                                U32ToOff(LE32(header.compressedSize))))

\* f and g differ at most in the bytes at offsets 8 and 9
SameButCompressionMethod(f, g) ==
    /\ Len(f) = Len(g)
    /\ \A i \in 1..Len(f) : i \notin {9, 10} => f[i] = g[i]

\* C8: two files that differ only in bytes 8 and 9 yield the same outcome and
\* the same message.
C8_CompressionMethodIrrelevant ==
    (Returned /\ run > 1 /\ SameButCompressionMethod(prev.file, file))
        => (result = prev.result /\ reason = prev.reason)

C8_Witness ==
    /\ Returned /\ run > 1
    /\ SameButCompressionMethod(prev.file, file)
    /\ prev.file # file
    /\ Len(file) >= 30
    /\ result = OK /\ prev.result = OK

\* C9: with the generated table, computeCrc32 of the empty buffer is
\* 0x00000000 and computeCrc32 of "123456789" is 0xCBF43926.
C9_Crc32CheckValues ==
    (crcPc = "returned" /\ crc32Table # ZeroCrc32Table)
        => /\ data = <<>> => crcReturn = <<0, 0>>
           /\ data = CheckString => crcReturn = <<14630, 52212>>

C9_Witness ==
    /\ crcPc = "returned"
    /\ crc32Table # ZeroCrc32Table
    /\ data = CheckString
    /\ crcReturn = <<14630, 52212>>

\* the order the claim C10 gives for the steps of one validation call
StepOrder ==
    <<"open", "magicRead", "magicCompare", "rewind",
      "signature", "versionNeeded", "flags", "compressionMethod", "lastModTime",
      "lastModDate", "crc32", "compressedSize", "uncompressedSize",
      "fileNameLength", "extraFieldLength", "signatureCompare", "forwardSeek">>

\* the outcome of a call whose k-th step is the one that fails
StepOutcome(k) ==
    CASE k = 1 -> ERR_FILE_OPEN
      [] k = 2 -> ERR_READ_FAIL
      [] k = 3 -> ERR_MAGIC_NUMBER
      [] k \in 5..15 -> k + 1
      [] k = 16 -> ERR_HEADER_SIGNATURE
      [] k = 17 -> ERR_READ_FAIL
      [] OTHER -> NoCode

\* C10: the steps of a call run in the fixed order, each at most once; after
\* a failed step no further step is made; the call returns once, with the
\* outcome of the step that failed, or with OK after all seventeen steps.
C10_FailureIsTerminal ==
    /\ Len(trace) <= 17
    /\ \A k \in 1..Len(trace) : trace[k].step = StepOrder[k]
    /\ \A k \in 1..(Len(trace) - 1) : trace[k].ok
    /\ returns <= 1
    /\ (pc = "exit" /\ argc >= 2) => returns = 1
    /\ Returned =>
          /\ trace # <<>>
          /\ IF trace[Len(trace)].ok
             THEN Len(trace) = 17 /\ result = OK
             ELSE result = StepOutcome(Len(trace))

C10_Witness ==
    /\ pc = "exit"
    /\ returns = 1
    /\ Len(trace) = 9
    /\ ~trace[9].ok
    /\ result = ERR_HEADER_LAST_MOD_TIME_READ

\* the process has exited
Exited == pc = "exit"

\* every one of the seventeen steps of the validation call was made and passed
AllStepsPassed ==
    /\ Len(trace) = 17
    /\ \A k \in 1..17 : trace[k].ok

\* C11: the exit status is the numeric code of the outcome as the
\* specification lists the codes: 1 when no path argument is given, otherwise
\* the code isValidZipFile returned; it is 0 exactly when every validation
\* step passed.
C11_ExitStatusIsOutcomeCode ==
    /\ <<OK, ERR_ARGUMENTS, ERR_FILE_OPEN, ERR_MAGIC_NUMBER, ERR_HEADER_SIGNATURE,
         ERR_HEADER_READ, ERR_HEADER_SIGNATURE_READ,
         ERR_HEADER_VERSION_NEEDED_READ, ERR_HEADER_FLAGS_READ,
         ERR_HEADER_COMPRESSION_METHOD_READ, ERR_HEADER_LAST_MOD_TIME_READ,
         ERR_HEADER_MOD_DATE_READ, ERR_HEADER_CRC32_READ,
         ERR_HEADER_COMPRESSED_SIZE_READ, ERR_HEADER_UNCOMPRESSED_SIZE_READ,
         ERR_HEADER_FILENAME_LENGTH_READ, ERR_HEADER_EXTRA_FIELD_LENGTH_READ,
         ERR_READ_FAIL>>
       = <<0, 1, 2, 3, 4, 5, 6, 7, 8, 9, 10, 11, 12, 13, 14, 15, 16, 17>>
    /\ Exited =>
          /\ exitCode \in 0..17
          /\ IF argc < 2 THEN exitCode = 1 /\ ~Returned
             ELSE Returned /\ exitCode = result
          /\ exitCode = 0 <=> AllStepsPassed

C11_Witness ==
    /\ Exited
    /\ argc = 2
    /\ openable /\ FileHasMagic /\ Len(file) = 20
    /\ exitCode = 13

\* the lines of std::cout that carry a compression-method label: those that
\* are neither the processing notice nor the final line with its number
LabelLines ==
    {k \in 1..Len(out) : out[k].code = NoCode /\ out[k].text # "procesing"}

\* C12: before the first four bytes of the file have been compared with the
\* magic and found equal, no compression-method label is written and no seek
\* distance is formed from fileNameLength, extraFieldLength, compressedSize.
C12_MagicCheckedBeforeFieldsUsed ==
    (LabelLines # {} \/ SeekMade \/ advance # Off(0)) =>
        /\ Len(trace) >= 3
        /\ trace[3] = [step |-> "magicCompare", ok |-> TRUE]
        /\ FileHasMagic

C12_Witness ==
    /\ LabelLines # {}
    /\ pc = "field"
    /\ ~SeekMade
    /\ FileHasMagic

\* C13: compressionMethodToString maps 8 to "deflated", 99 to "unknown", and
\* every value outside {0..19, 98} to "unknown".
C13_CompressionMethodLabel ==
    lblPc = "returned" =>
        /\ method = 8 => label = "deflated"
        /\ method = 99 => label = "unknown"
        /\ method \notin (0..19) \cup {98} => label = "unknown"

C13_Witness ==
    /\ lblPc = "returned"
    /\ method = 99
    /\ label = "unknown"

\* the table is written by at most one construction run, which writes every
\* entry; it is complete before the validation call or a checksum computation
\* starts, and keeps its entries afterwards
TableBuiltOnceBeforeUse ==
    /\ tableRuns <= 1
    /\ tableRuns = 0 => crc32Table = ZeroCrc32Table
    /\ tableRuns = 1 => crc32Table = GeneratedCrc32Table
    /\ (trace # <<>> \/ pc = "open" \/ crcPc # "idle") => tableRuns = 1

\* C14 (as claimed): every process makes exactly one table-construction run,
\* completed before validation starts, and the table is not written afterwards.
C14_OneTableRunPerProcess ==
    /\ TableBuiltOnceBeforeUse
    /\ Exited => tableRuns = 1

\* C14 (amended): every process that is given a path argument makes exactly
\* one table-construction run, completed before validation starts, and the
\* table is not written afterwards; a process without a path argument exits
\* without building the table.
C14_OneTableRunPerValidatingProcess ==
    /\ TableBuiltOnceBeforeUse
    /\ Exited => tableRuns = (IF argc < 2 THEN 0 ELSE 1)

C14_Witness ==
    /\ Exited
    /\ argc = 2
    /\ Returned
    /\ tableRuns = 1
    /\ crc32Table # ZeroCrc32Table

\* C15: the file a validation call opened is closed in every state the call
\* has returned in, whatever the outcome, and stays closed until the process
\* has exited.
C15_FileReleasedOnEveryExit ==
    /\ Returned => ~isOpen
    /\ Exited => ~isOpen
    /\ isOpen => (trace # <<>> /\ trace[1] = [step |-> "open", ok |-> TRUE])

\* a call that opened the file and failed in the middle of the header
C15_Witness ==
    /\ Returned
    /\ trace[1] = [step |-> "open", ok |-> TRUE]
    /\ result = ERR_HEADER_UNCOMPRESSED_SIZE_READ
    /\ ~isOpen

\* C16: isValidZipFile never returns ERR_HEADER_SIGNATURE,
\* ERR_HEADER_SIGNATURE_READ, ERR_HEADER_READ or ERR_ARGUMENTS: once the magic
\* comparison has passed, the signature read after the rewind succeeds, it
\* stores the bytes the quick check looked at, and the decoded signature
\* equals 0x04034b50, so the signature comparison passes.
C16_SignatureOutcomesUnreachable ==
    /\ Returned =>
          result \notin {ERR_HEADER_SIGNATURE, ERR_HEADER_SIGNATURE_READ,
                         ERR_HEADER_READ, ERR_ARGUMENTS}
    /\ Len(trace) >= 5 =>
          /\ trace[5] = [step |-> "signature", ok |-> TRUE]
          /\ header.signature = buffer
          /\ LE32(header.signature) = <<19280, 1027>>
    /\ Len(trace) >= 16 =>
          trace[16] = [step |-> "signatureCompare", ok |-> TRUE]

C16_Witness ==
    /\ Returned
    /\ Len(trace) >= 16
    /\ trace[16] = [step |-> "signatureCompare", ok |-> TRUE]
    /\ LE32(header.signature) = PK_SIGNATURE

\* the label of the compressionMethod written at offsets 8 and 9 of the file
FileLabel == compressionMethodToString(file[9] + 256 * file[10])

\* C17: a validation call writes the compression-method label exactly once if
\* the compressionMethod read succeeded (the file opens, starts with the magic
\* and has at least 10 bytes) and never otherwise; the label follows the
\* processing notice and precedes the final message line, and it is written
\* also when validation fails later.
C17_LabelEmittedOnceIffMethodRead ==
    /\ Cardinality(LabelLines) <= 1
    /\ LabelLines # {} <=>
          (Len(trace) >= 8 /\ trace[8] = [step |-> "compressionMethod", ok |-> TRUE])
    /\ (Exited /\ argc >= 2) =>
          out = IF openable /\ FileHasMagic /\ Len(file) >= 10
                THEN <<Line("procesing", NoCode), Line(FileLabel, NoCode),
                       Line(reason, result)>>
                ELSE <<Line("procesing", NoCode), Line(reason, result)>>

\* the label was written and validation failed afterwards
C17_Witness ==
    /\ Exited
    /\ Len(out) = 3
    /\ out[2] = Line("deflated", NoCode)
    /\ result = ERR_HEADER_COMPRESSED_SIZE_READ

\* fileNameLength + extraFieldLength + compressedSize of the decoded header as
\* a number (no reduction), in the form of a 64-bit offset
HeaderSum ==
    AddOff(Off(LE16(header.fileNameLength)),
           AddOff(Off(LE16(header.extraFieldLength)),
                  U32ToOff(LE32(header.compressedSize))))

\* the fixed-field decode reads bytes 0..29: the signature is the four bytes
\* of the quick check, compressedSize is bytes 18..21, fileNameLength bytes
\* 26..27 and extraFieldLength bytes 28..29, and the forward seek starts at
\* offset 30
DecodeReadsFirstThirtyBytes ==
    /\ pc = "field" => pos = Off(([k \in 1..11 |->
                                     <<0, 4, 6, 8, 10, 12, 14, 18, 22, 26, 28>>[k]])[fieldIndex])
    /\ Len(trace) >= 5 => header.signature = buffer
    /\ (Len(trace) >= 15 /\ trace[15].ok) =>
          /\ header.signature = SubSeq(file, 1, 4)
          /\ header.compressedSize = SubSeq(file, 19, 22)
          /\ header.fileNameLength = SubSeq(file, 27, 28)
          /\ header.extraFieldLength = SubSeq(file, 29, 30)
    /\ pc = "forwardSeek" => pos = Off(30)

\* on outcome OK the read position is 30 + fileNameLength + extraFieldLength +
\* compressedSize
FinalPositionIsHeaderEndPlusSum ==
    (Returned /\ result = OK) => pos = AddOff(Off(30), HeaderSum)

\* C18 (as claimed): the decode consumes bytes 0..29 after the rewind, the
\* forward seek starts at offset 30, and on outcome OK the final read position
\* is 30 + fileNameLength + extraFieldLength + compressedSize.
C18_DecodeLayoutAndFinalPosition ==
    /\ DecodeReadsFirstThirtyBytes
    /\ FinalPositionIsHeaderEndPlusSum

====
